---- MODULE Spec2Model ----
(***************************************************************************)
(* A model of chrome-extension-fetch (src/index.js): the redirect          *)
(* following HTTPS fetcher, the CRX download step, the CRX header parser   *)
(* and the CRX -> ZIP conversion.                                          *)
(*                                                                         *)
(* Numbers.  A JavaScript number that can exceed 2^31 (a uint32 read from  *)
(* the buffer, the offset computed from it) is kept exactly as a pair      *)
(* [hi, lo] denoting hi * 2^24 + lo with 0 <= lo < 2^24.  Bytes, status    *)
(* codes, hop budgets and buffer lengths are plain integers.               *)
(* Buffers are sequences of bytes; byte offset o is index o + 1.           *)
(***************************************************************************)
EXTENDS Integers, Sequences, FiniteSets, TLC

VARIABLES
    input,      \* how the container under test was assembled (test input)
    args,       \* arguments of the call under test
    pc,         \* position of the invocation
    dirExists,  \* whether the output directory exists
    files,      \* the two destination files: [crx, zip], each [exists, data]
    requests,   \* the https.get calls issued so far, in order
    responses,  \* the responses received so far, in order
    fetched,    \* the promise returned by the outermost fetchWithRedirect
    fileStream, \* the write stream on the container file
    writes,     \* the bytes handed to the write stream and not yet written
    parsed,     \* outcome of the last getZipStartOffset call
    outcome,    \* the promise (or call outcome) of the entry point under test
    running,    \* with two invocations in one process: the one (1 or 2)
                \* whose callback runs, held in the variables above; 0 when
                \* there is one invocation only
    suspended,  \* the args, position, requests, responses, promises and
                \* streams of the invocation that is not running
    disk        \* the files of both invocations, by path, as they were
                \* when the running invocation took over

\* the variables that belong to a second invocation
concurrency == <<running, suspended, disk>>

vars == <<input, args, pc, dirExists, files, requests, responses, fetched,
          fileStream, writes, parsed, outcome, concurrency>>

\* one invocation only
Single ==
    /\ running = 0
    /\ suspended = [pc |-> "none"]
    /\ disk = <<>>

----------------------------------------------------------------------------
(* Exact arithmetic on numbers beyond 2^31.                                *)

Limb == 256 * 256 * 256

Num(n) == [hi |-> n \div Limb, lo |-> n % Limb]

Plus(x, y) ==
    LET s == x.lo + y.lo
    IN  [hi |-> x.hi + y.hi + (s \div Limb), lo |-> s % Limb]

\* x <= n for a plain integer n < 2^24
AtMost(x, n) == x.hi = 0 /\ x.lo <= n

Min(a, b) == IF a < b THEN a ELSE b

\* `${n}`: the decimal digits of a number, most significant first
RECURSIVE ToDecimal(_)
ToDecimal(x) ==
    LET r == (x.hi % 10) * Limb + x.lo
        q == [hi |-> x.hi \div 10, lo |-> 0]
        d == r % 10
        rest == Plus(q, Num(r \div 10))
    IN  IF rest.hi = 0 /\ rest.lo = 0 THEN <<d>> ELSE Append(ToDecimal(rest), d)

----------------------------------------------------------------------------
(* Outcomes of calls and promises.                                         *)

Return(v) == [type |-> "return", value |-> v]

\* new Error(message); the message is a template text and the decimal
\* digits interpolated into it (empty when the text is fixed)
Throw(name, text, digits) ==
    [type |-> "throw", name |-> name, message |-> <<text, digits>>]

Pending == [type |-> "pending"]

----------------------------------------------------------------------------
(* Buffer primitives used by the parser.                                   *)

\* buffer.toString("ascii", start, end): end is clamped to the length and
\* the ascii decoder clears the high bit of every byte
toStringAscii(buffer, start, end) ==
    LET e == Min(end, Len(buffer))
    IN  IF e <= start THEN <<>>
        ELSE [i \in 1..(e - start) |-> buffer[start + i] % 128]

\* the characters of "Cr24"
Cr24 == <<67, 114, 50, 52>>

readUInt32LE_Low16(buffer, offset) ==
    IF offset + 4 > Len(buffer)
    THEN IF Len(buffer) - 4 < 0
         THEN Throw("RangeError", "ERR_BUFFER_OUT_OF_BOUNDS", <<>>)
         ELSE Throw("RangeError", "ERR_OUT_OF_RANGE", <<>>)
    ELSE Return([hi |-> 0,
                 lo |-> buffer[offset + 1] + 256 * buffer[offset + 2]])

\* buffer.readUInt32LE(offset): a RangeError when the four bytes are not
\* all inside the buffer
readUInt32LE(buffer, offset) ==
    IF offset + 4 > Len(buffer)
    THEN IF Len(buffer) - 4 < 0
         THEN Throw("RangeError", "ERR_BUFFER_OUT_OF_BOUNDS", <<>>)
         ELSE Throw("RangeError", "ERR_OUT_OF_RANGE", <<>>)
    ELSE Return([hi |-> buffer[offset + 4],
                 lo |-> buffer[offset + 1] + 256 * buffer[offset + 2]
                        + 65536 * buffer[offset + 3]])

slice_Whole(buffer, start) == buffer

\* buffer.slice(start): start is clamped to the buffer's length
slice(buffer, start) ==
    IF AtMost(start, Len(buffer))
    THEN SubSeq(buffer, start.lo + 1, Len(buffer))
    ELSE <<>>

----------------------------------------------------------------------------
(* The header parser.                                                      *)

V2Offset_NoSignature(pubKeyLen, sigLen) == Plus(Num(16), pubKeyLen)

\* 16 + pubKeyLen + sigLen
V2Offset(pubKeyLen, sigLen) == Plus(Plus(Num(16), pubKeyLen), sigLen)

V3Offset_AsV2(headerSize) == Plus(Num(16), headerSize)

\* 12 + headerSize
V3Offset(headerSize) == Plus(Num(12), headerSize)

getZipStartOffset(buffer) ==
    IF toStringAscii(buffer, 0, 4) # Cr24
    THEN Throw("Error", "Not a valid CRX file (missing \"Cr24\").", <<>>)
    ELSE LET version == readUInt32LE(buffer, 4)
         IN  IF version.type = "throw" THEN version
             ELSE IF version.value = Num(2)
             THEN LET pubKeyLen == readUInt32LE(buffer, 8)
                      sigLen == readUInt32LE(buffer, 12)
                  IN  IF pubKeyLen.type = "throw" THEN pubKeyLen
                      ELSE IF sigLen.type = "throw" THEN sigLen
                      ELSE Return(V2Offset(pubKeyLen.value, sigLen.value))
             ELSE IF version.value = Num(3)
             THEN LET headerSize == readUInt32LE(buffer, 8)
                  IN  IF headerSize.type = "throw" THEN headerSize
                      ELSE Return(V3Offset(headerSize.value))
             ELSE Throw("Error", "Unsupported CRX version: ", ToDecimal(version.value))

----------------------------------------------------------------------------
(* The conversion step, on the two destination files.                      *)

NoFile == [exists |-> FALSE, data |-> <<>>]

File(data) == [exists |-> TRUE, data |-> data]

convertCRXtoZIP_WriteFirst(fs) ==
    IF ~fs.crx.exists
    THEN [files |-> fs, parsed |-> Pending,
          result |-> Throw("Error", "ENOENT", <<>>)]
    ELSE LET buffer == fs.crx.data
             zipOffset == getZipStartOffset(buffer)
         IN  IF zipOffset.type = "throw"
             THEN [files |-> [fs EXCEPT !.zip = File(<<>>)],
                   parsed |-> zipOffset, result |-> zipOffset]
             ELSE [files |-> [fs EXCEPT !.zip = File(slice(buffer, zipOffset.value))],
                   parsed |-> zipOffset,
                   result |-> Return("undefined")]

\* convertCRXtoZIP(crxPath, zipPath): the files afterwards, the parser's
\* outcome and the outcome of the call
convertCRXtoZIP(fs) ==
    IF ~fs.crx.exists
    THEN [files |-> fs, parsed |-> Pending,
          result |-> Throw("Error", "ENOENT", <<>>)]
    ELSE LET buffer == fs.crx.data
             zipOffset == getZipStartOffset(buffer)
         IN  IF zipOffset.type = "throw"
             THEN [files |-> fs, parsed |-> zipOffset, result |-> zipOffset]
             ELSE [files |-> [fs EXCEPT !.zip = File(slice(buffer, zipOffset.value))],
                   parsed |-> zipOffset,
                   result |-> Return("undefined")]

----------------------------------------------------------------------------
(* Containers under test, assembled as the format comment lays them out:   *)
(* magic, LE32(version), LE32(field A), for the two-field layout           *)
(* LE32(field B), then the remaining bytes; `cut` bytes are dropped from   *)
(* the end to obtain truncated files.                                      *)

MaxFieldLen == 2
MaxTail == 5
LongField == 256
MaxCut == 16

U32Max == [hi |-> 255, lo |-> Limb - 1]

LE32(x) == <<x.lo % 256, (x.lo \div 256) % 256, x.lo \div 65536, x.hi>>

Filler(n) == [i \in 1..n |-> ((37 * i) % 251) + 1]

Assemble(in) ==
    LET full == in.magic \o LE32(in.version) \o LE32(in.fieldA)
                \o (IF in.layout = 2 THEN LE32(in.fieldB) ELSE <<>>)
                \o Filler(in.tail)
    IN  SubSeq(full, 1, Len(full) - Min(in.cut, Len(full)))

Magics == { Cr24,
            <<195, 114, 50, 52>>,    \* "Cr24" with the high bit of 'C' set
            <<67, 114, 50, 53>>,     \* "Cr25"
            <<99, 114, 50, 52>>,     \* "cr24"
            <<80, 75, 3, 4>> }       \* a plain ZIP signature

Versions == { Num(0), Num(1), Num(2), Num(3), Num(4), Num(258),
              [hi |-> 1, lo |-> 3], U32Max }

FieldLens == { Num(n) : n \in 0..MaxFieldLen } \cup { Num(LongField), U32Max }

TailLens == (0..MaxTail) \cup { LongField + MaxFieldLen + 1 }

In(layout, magic, version, fieldA, fieldB, tail, cut) ==
    [layout |-> layout, magic |-> magic, version |-> version,
     fieldA |-> fieldA, fieldB |-> fieldB, tail |-> tail, cut |-> cut]

\* the end-to-end scenario: a version 3 container of EndToEndLength bytes
EndToEndLength == 1000
EndToEndHeaderSize == 37

EndToEnd ==
    In(3, Cr24, Num(3), Num(EndToEndHeaderSize), Num(0),
       EndToEndLength - 12, 0)

Inputs ==
    { EndToEnd } \cup
    { in \in [layout : {2, 3}, magic : Magics, version : Versions,
              fieldA : FieldLens, fieldB : FieldLens, tail : TailLens,
              cut : 0..MaxCut] :
        /\ (in.layout = 3 => in.fieldB = Num(0))
        /\ (in.cut > 0 => in.tail = 0) }

Preexisting == File(<<80, 75, 5, 6>>)

\* the payload a well-formed container was assembled around
Payload(in) ==
    LET h == in.fieldA.lo + (IF in.layout = 2 THEN in.fieldB.lo ELSE 0)
    IN  SubSeq(Filler(in.tail), h + 1, in.tail)

WellFormed(in, v) ==
    /\ in.magic = Cr24
    /\ in.version = Num(v)
    /\ in.layout = v
    /\ in.cut = 0
    /\ in.fieldA.hi = 0
    /\ in.fieldB.hi = 0
    /\ in.fieldA.lo + in.fieldB.lo <= in.tail

----------------------------------------------------------------------------
(* Direct calls of convertCRXtoZIP on a container file.                    *)

InitParse ==
    /\ input \in Inputs
    /\ args = [crxPath |-> "crx", zipPath |-> "zip"]
    /\ pc = "convert"
    /\ dirExists = TRUE
    /\ \E z \in {NoFile, Preexisting} :
            files = [crx |-> File(Assemble(input)), zip |-> z]
    /\ requests = <<>>
    /\ responses = <<>>
    /\ fetched = Pending
    /\ fileStream = "none"
    /\ writes = <<>>
    /\ parsed = Pending
    /\ outcome = Pending
    /\ Single

ConvertCRXtoZIP ==
    /\ pc = "convert"
    /\ LET r == convertCRXtoZIP(files)
       IN  /\ files' = r.files
           /\ parsed' = r.parsed
           /\ outcome' = r.result
    /\ pc' = "done"
    /\ UNCHANGED <<concurrency, input, args, writes, dirExists, requests, responses, fetched, fileStream>>

NextParse == ConvertCRXtoZIP

SpecParse == InitParse /\ [][NextParse]_vars

----------------------------------------------------------------------------
(* The redirect-following fetcher.                                         *)

DefaultMaxRedirects == 5

\* a header that may be absent; absent and "" are both falsy
Absent == [present |-> FALSE, value |-> ""]

Header(v) == [present |-> TRUE, value |-> v]

Truthy_Present(h) == h.present

Truthy(h) == h.present /\ h.value # ""

\* https.get(url, options, callback) issued by the call frame whose
\* remaining hop budget is maxRedirects
Request(url, options, maxRedirects) ==
    [url |-> url, options |-> options, maxRedirects |-> maxRedirects]

\* a response as received, with the bytes its body will deliver; flowing is
\* set by res.resume() and by pipe(), piped by pipe(); delivered counts the
\* bytes of the body handed to a pipe destination so far
Response(statusCode, location, body) ==
    [statusCode |-> statusCode, headers |-> [location |-> location],
     body |-> body, flowing |-> FALSE, piped |-> FALSE, delivered |-> 0]

resume_Noop(res) == res

\* res.resume(): the body is switched to flowing and discarded
resume(res) == [res EXCEPT !.flowing = TRUE]

IsRedirect(statusCode, headers) ==
    statusCode >= 300 /\ statusCode < 400 /\ Truthy(headers.location)

\* the request the recursive call issues for a redirect response
Redirected(req, res) ==
    Request(res.headers.location.value, req.options, req.maxRedirects - 1)

\* the request whose response or error is awaited
Current == requests[Len(requests)]

Statuses == {200, 204, 299, 300, 302, 399, 400, 404}

VariedHops == 2

\* the status codes tried for the response to the hop-th request: all of
\* them on the first hops, afterwards 302 as the only redirect status
StatusesAt(hop) ==
    IF hop <= VariedHops THEN Statuses ELSE Statuses \ {300, 399}

\* Location values that are not absolute URLs
RelativeUrls == {"/service/update2/crx/blob"}

\* Location values whose protocol is not https:
HttpUrls == {"http://cdn.example/crx"}

LocationHeaders ==
    {Absent, Header(""), Header("https://cdn.example/crx")}
        \cup {Header(u) : u \in RelativeUrls \cup HttpUrls}

\* https.get checks a redirect URL before any request is made: it throws
\* a TypeError with code ERR_INVALID_URL for a URL that is not absolute and
\* with code ERR_INVALID_PROTOCOL for a protocol other than https:; "" when
\* the URL is accepted
UrlError(url) ==
    IF url \in RelativeUrls THEN "ERR_INVALID_URL"
    ELSE IF url \in HttpUrls THEN "ERR_INVALID_PROTOCOL"
    ELSE ""

NetworkErrors == {"ENOTFOUND", "ECONNRESET"}

BodyErrors == {"ECONNRESET"}

\* the containers the server may serve
Served ==
    { In(3, Cr24, Num(3), Num(2), Num(0), 5, 0),        \* well-formed v3
      In(2, Cr24, Num(2), Num(1), Num(2), 5, 0),        \* well-formed v2
      In(3, Cr24, Num(3), Num(0), Num(0), 0, 0),        \* v3, nothing after the header
      In(3, Cr24, Num(3), U32Max, Num(0), 3, 0),        \* v3, header size beyond the end
      In(2, Cr24, Num(2), Num(0), Num(0), 0, 5),        \* v2, cut inside the length fields
      In(3, Cr24, Num(4), Num(1), Num(0), 2, 0),        \* version 4
      In(3, <<80, 75, 3, 4>>, Num(3), Num(1), Num(0), 2, 0) }   \* not a CRX

Bodies(statusCode) ==
    IF statusCode = 200 THEN { Assemble(in) : in \in Served } ELSE { <<>> }

\* the response callback of https.get
OnResponse ==
    /\ pc = "request"
    /\ \E statusCode \in StatusesAt(Len(responses) + 1),
          location \in LocationHeaders :
       \E body \in Bodies(statusCode) :
        LET res == Response(statusCode, location, body)
        IN  IF IsRedirect(statusCode, res.headers)
            THEN IF Current.maxRedirects = 0
                 THEN /\ fetched' = Throw("Error", "Too many redirects", <<>>)
                      /\ responses' = Append(responses, resume(res))
                      /\ requests' = requests
                      /\ pc' = "settled"
                 ELSE IF UrlError(location.value) # ""
                 THEN \* https.get throws inside the executor of the
                      \* recursive call, whose promise the outer one adopts
                      /\ fetched' = Throw("TypeError",
                                          UrlError(location.value), <<>>)
                      /\ responses' = Append(responses, resume(res))
                      /\ requests' = requests
                      /\ pc' = "settled"
                 ELSE /\ responses' = Append(responses, resume(res))
                      /\ requests' = Append(requests, Redirected(Current, res))
                      /\ fetched' = fetched
                      /\ pc' = "request"
            ELSE /\ responses' = Append(responses, res)
                 /\ fetched' = Return([statusCode |-> statusCode,
                                       headers |-> res.headers,
                                       bodyStream |-> Len(responses) + 1])
                 /\ requests' = requests
                 /\ pc' = "settled"
    /\ UNCHANGED <<concurrency, input, args, writes, dirExists, files, fileStream, parsed, outcome>>

RequestError_Generic(code) == Throw("Error", "Request failed", <<>>)

\* the error the request emits, handed to reject as it is
RequestError(code) == Throw("Error", code, <<>>)

\* the "error" listener of the request
OnRequestError ==
    /\ pc = "request"
    /\ \E code \in NetworkErrors :
            fetched' = RequestError(code)
    /\ pc' = "settled"
    /\ UNCHANGED <<concurrency, input, args, writes, dirExists, files, requests, responses,
                   fileStream, parsed, outcome>>

----------------------------------------------------------------------------
(* Direct calls of fetchWithRedirect with any hop budget.                  *)

MaxHopBudget == 6

DefaultChromeVersion == "114.0.5735.133"

ChromeVersions == {DefaultChromeVersion, "120.0.6099.71"}

ExtensionIds == {"idpfgkgogjjgklefnkjdpghkifbjenap"}

\* the update-service URL downloadCRX builds
CrxUrl(extensionId, chromeVersion) ==
    <<"https://clients2.google.com/service/update2/crx?response=redirect&prodversion=",
      chromeVersion, "&acceptformat=crx2,crx3&x=id%3D", extensionId, "%26uc">>

\* the request options downloadCRX builds
CrxOptions(chromeVersion) ==
    [headers |->
        [UserAgent |-> <<"Mozilla/5.0 (Windows NT 10.0; Win64; x64) AppleWebKit/537.36 (KHTML, like Gecko) Chrome/",
                         chromeVersion, " Safari/537.36">>,
         Accept |-> "*/*"]]

InitFetch ==
    /\ input = "none"
    /\ \E id \in ExtensionIds, v \in ChromeVersions, n \in 0..MaxHopBudget :
            args = [url |-> CrxUrl(id, v), options |-> CrxOptions(v),
                    maxRedirects |-> n]
    /\ pc = "call"
    /\ dirExists = TRUE
    /\ files = [crx |-> NoFile, zip |-> NoFile]
    /\ requests = <<>>
    /\ responses = <<>>
    /\ fetched = Pending
    /\ fileStream = "none"
    /\ writes = <<>>
    /\ parsed = Pending
    /\ outcome = Pending
    /\ Single

\* fetchWithRedirect(url, options, maxRedirects): the promise is created
\* and the first request issued
FetchWithRedirect ==
    /\ pc = "call"
    /\ requests' = <<Request(args.url, args.options, args.maxRedirects)>>
    /\ pc' = "request"
    /\ UNCHANGED <<concurrency, input, args, writes, dirExists, files, responses, fetched,
                   fileStream, parsed, outcome>>

NextFetch == FetchWithRedirect \/ OnResponse \/ OnRequestError

SpecFetch == InitFetch /\ [][NextFetch]_vars

----------------------------------------------------------------------------
(* One invocation of fetchExtensionZip.  The two file names are derived    *)
(* from the extension URL and always differ in their extension; the model  *)
(* keeps them as the paths "crx" and "zip".                                *)

MaxChunk == 8

\* the sizes in which the body arrives
ChunkSizes == {MaxChunk \div 2, MaxChunk}

Init ==
    /\ input = "none"
    /\ \E id \in ExtensionIds :
            args = [extensionId |-> id, chromeVersion |-> DefaultChromeVersion]
    /\ pc = "start"
    /\ \E d \in BOOLEAN, f \in {NoFile, Preexisting} :
            /\ (f.exists => d)
            /\ dirExists = d
            /\ files = [crx |-> f, zip |-> f]
    /\ requests = <<>>
    /\ responses = <<>>
    /\ fetched = Pending
    /\ fileStream = "none"
    /\ writes = <<>>
    /\ parsed = Pending
    /\ outcome = Pending
    /\ Single

\* fetchExtensionZip up to its first await: the output directory is made,
\* downloadCRX builds the URL and the options and calls fetchWithRedirect
\* with the default hop budget
FetchExtensionZip ==
    /\ pc = "start"
    /\ dirExists' = TRUE
    /\ requests' = <<Request(CrxUrl(args.extensionId, args.chromeVersion),
                             CrxOptions(args.chromeVersion),
                             DefaultMaxRedirects)>>
    /\ pc' = "request"
    /\ UNCHANGED <<concurrency, input, args, writes, files, responses, fetched, fileStream,
                   parsed, outcome>>

IsOk_Any2xx(statusCode) == statusCode >= 200 /\ statusCode < 300

IsOk_Unchecked(statusCode) == TRUE

\* the status check of downloadCRX (negated in the source)
IsOk(statusCode) == statusCode = 200

\* downloadCRX resumes when the fetch promise settles
DownloadCRX ==
    /\ pc = "settled"
    /\ IF fetched.type = "throw"
       THEN /\ outcome' = fetched
            /\ pc' = "done"
            /\ UNCHANGED <<responses, fileStream>>
       ELSE IF ~IsOk(fetched.value.statusCode)
       THEN /\ responses' = [responses EXCEPT
                                ![fetched.value.bodyStream] = resume(@)]
            /\ outcome' = Throw("Error", "Download failed, final status code: ",
                                ToDecimal(Num(fetched.value.statusCode)))
            /\ pc' = "done"
            /\ UNCHANGED fileStream
       ELSE /\ fileStream' = "opening"
            /\ responses' = [responses EXCEPT
                                ![fetched.value.bodyStream].flowing = TRUE,
                                ![fetched.value.bodyStream].piped = TRUE]
            /\ outcome' = outcome
            /\ pc' = "piping"
    /\ UNCHANGED <<concurrency, input, args, writes, dirExists, files, requests, fetched, parsed>>

\* the write stream opens its file with flag "w"
FileStreamOpen ==
    /\ fileStream = "opening"
    /\ fileStream' = "open"
    /\ files' = [files EXCEPT !.crx = File(<<>>)]
    /\ UNCHANGED <<concurrency, input, args, writes, pc, dirExists, requests, responses, fetched,
                   parsed, outcome>>

\* the body being piped
Body == responses[fetched.value.bodyStream].body

\* pipe() hands the next chunk of the body to fileStream.write().  The
\* write stream starts a write at once when it is open and idle; while it
\* is opening, or while a write is under way, it keeps the chunk with the
\* ones it already holds, to be written together.  writes[1] is the write
\* under way (or the one begun when the file opens), writes[2] the one
\* after it.  A destroyed write stream drops the chunk and write() returns
\* false, on which pipe() pauses the body.
PipeChunk ==
    /\ pc = "piping"
    /\ fileStream \in {"opening", "open", "destroyed"}
    /\ responses[fetched.value.bodyStream].flowing
    /\ responses[fetched.value.bodyStream].delivered < Len(Body)
    /\ \E size \in ChunkSizes :
        LET from == responses[fetched.value.bodyStream].delivered
            k == Min(size, Len(Body) - from)
            chunk == SubSeq(Body, from + 1, from + k)
        IN  IF fileStream = "destroyed"
            THEN /\ responses' = [responses EXCEPT
                                    ![fetched.value.bodyStream].delivered = from + k,
                                    ![fetched.value.bodyStream].flowing = FALSE]
                 /\ writes' = writes
            ELSE /\ responses' = [responses EXCEPT
                                    ![fetched.value.bodyStream].delivered = from + k]
                 /\ writes' =
                        IF writes = <<>> THEN <<chunk>>
                        ELSE IF fileStream = "opening" THEN <<writes[1] \o chunk>>
                        ELSE IF Len(writes) = 1 THEN <<writes[1], chunk>>
                        ELSE <<writes[1], writes[2] \o chunk>>
    /\ UNCHANGED <<concurrency, input, args, pc, dirExists, files, requests, fetched,
                   fileStream, parsed, outcome>>

\* a write to the container file completes; this happens whether or not
\* the body is still being piped
FileStreamWrite ==
    /\ fileStream = "open"
    /\ writes # <<>>
    /\ files' = [files EXCEPT !.crx = File(files.crx.data \o Head(writes))]
    /\ writes' = Tail(writes)
    /\ UNCHANGED <<concurrency, input, args, pc, dirExists, requests, responses, fetched,
                   fileStream, parsed, outcome>>

\* "error" on the body stream: the copy promise rejects
BodyStreamError ==
    /\ pc = "piping"
    /\ \E code \in BodyErrors :
            outcome' = Throw("Error", code, <<>>)
    /\ pc' = "done"
    /\ UNCHANGED <<concurrency, input, args, writes, dirExists, files, requests, responses, fetched,
                   fileStream, parsed>>

\* the write under way fails: the write stream is destroyed, the chunks it
\* holds are dropped and the file is being closed; "error" is not emitted
\* yet and the body stays piped
FileStreamWriteFails ==
    /\ fileStream = "open"
    /\ writes # <<>>
    /\ fileStream' = "destroyed"
    /\ writes' = <<>>
    /\ UNCHANGED <<concurrency, input, args, pc, dirExists, files, requests, responses,
                   fetched, parsed, outcome>>

\* "error" on the write stream, emitted when the open failed or when the
\* file of a destroyed stream is closed.  pipe() unpipes and pauses the
\* body; downloadCRX has put no "error" listener on the write stream, so
\* the event is thrown as an uncaught exception and neither resolve nor
\* reject is called
FileStreamError ==
    /\ pc \in {"piping", "done"}
    /\ fileStream \in {"opening", "destroyed"}
    /\ fileStream' = "errored"
    /\ writes' = <<>>
    /\ responses' = [responses EXCEPT
                        ![fetched.value.bodyStream].flowing = FALSE,
                        ![fetched.value.bodyStream].piped = FALSE]
    /\ pc' = "crashed"
    /\ UNCHANGED <<concurrency, input, args, dirExists, files, requests, fetched, parsed,
                   outcome>>

\* "finish" on the write stream: downloadCRX returns, fetchExtensionZip
\* converts the container and returns the two paths
FileStreamFinish ==
    /\ pc = "piping"
    /\ fileStream = "open"
    /\ writes = <<>>
    /\ files.crx.data = Body
    /\ fileStream' = "finished"
    /\ responses' = [responses EXCEPT
                        ![fetched.value.bodyStream].flowing = FALSE,
                        ![fetched.value.bodyStream].piped = FALSE]
    /\ LET r == convertCRXtoZIP(files)
       IN  /\ files' = r.files
           /\ parsed' = r.parsed
           /\ outcome' = IF r.result.type = "throw" THEN r.result
                         ELSE Return([crxPath |-> "crx", zipPath |-> "zip"])
    /\ pc' = "done"
    /\ UNCHANGED <<concurrency, input, args, writes, dirExists, requests, fetched>>

Next ==
    \/ FetchExtensionZip
    \/ OnResponse
    \/ OnRequestError
    \/ DownloadCRX
    \/ FileStreamOpen
    \/ PipeChunk
    \/ FileStreamWrite
    \/ BodyStreamError
    \/ FileStreamWriteFails
    \/ FileStreamError
    \/ FileStreamFinish

Spec == Init /\ [][Next]_vars

----------------------------------------------------------------------------
(* Two invocations of fetchExtensionZip in one process.  JavaScript runs   *)
(* one callback at a time: the variables of one invocation hold the        *)
(* invocation whose callback runs, the other one waits in suspended, and   *)
(* Switch lets the event loop turn to the other invocation between any two *)
(* callbacks.  The file system, the output directory and the process are   *)
(* shared.                                                                 *)

\* the two calls: different extensions, names and Chrome versions
Invocations ==
    <<[extensionId |-> "idpfgkgogjjgklefnkjdpghkifbjenap",
       chromeVersion |-> DefaultChromeVersion,
       guessedName |-> "twitterx-feed-blocker"],
      [extensionId |-> "iofjnhbihgjfhdldcnlmjbfmighljfob",
       chromeVersion |-> "120.0.6099.71",
       guessedName |-> "extension"]>>

\* the two file names fetchExtensionZip builds from the name in the URL
DestinationPaths(a) ==
    [crx |-> <<"extensions", a.guessedName, ".crx">>,
     zip |-> <<"extensions", a.guessedName, ".zip">>]

AllPaths ==
    UNION { {DestinationPaths(Invocations[i]).crx,
             DestinationPaths(Invocations[i]).zip} : i \in {1, 2} }

\* what belongs to the running invocation alone
Local ==
    [args |-> args, pc |-> pc, requests |-> requests, responses |-> responses,
     fetched |-> fetched, fileStream |-> fileStream, writes |-> writes,
     parsed |-> parsed, outcome |-> outcome]

\* the files by path: those of the running invocation as it has written
\* them, the others as on disk
Namespace ==
    [p \in DOMAIN disk |->
        IF p = DestinationPaths(args).zip THEN files.zip
        ELSE IF p = DestinationPaths(args).crx THEN files.crx
        ELSE disk[p]]

InitTwo ==
    /\ input = "none"
    /\ running = 1
    /\ args = Invocations[1]
    /\ pc = "start"
    /\ suspended = [args |-> Invocations[2], pc |-> "start",
                    requests |-> <<>>, responses |-> <<>>,
                    fetched |-> Pending, fileStream |-> "none",
                    writes |-> <<>>, parsed |-> Pending, outcome |-> Pending]
    /\ dirExists = FALSE
    /\ files = [crx |-> NoFile, zip |-> NoFile]
    /\ disk = [p \in AllPaths |-> NoFile]
    /\ requests = <<>>
    /\ responses = <<>>
    /\ fetched = Pending
    /\ fileStream = "none"
    /\ writes = <<>>
    /\ parsed = Pending
    /\ outcome = Pending

\* the event loop turns to a callback of the other invocation
Switch ==
    /\ running \in {1, 2}
    /\ suspended.pc # "killed"
    /\ running' = 3 - running
    /\ suspended' = Local
    /\ disk' = Namespace
    /\ args' = suspended.args
    /\ pc' = suspended.pc
    /\ requests' = suspended.requests
    /\ responses' = suspended.responses
    /\ fetched' = suspended.fetched
    /\ fileStream' = suspended.fileStream
    /\ writes' = suspended.writes
    /\ parsed' = suspended.parsed
    /\ outcome' = suspended.outcome
    /\ files' = [crx |-> Namespace[DestinationPaths(suspended.args).crx],
                 zip |-> Namespace[DestinationPaths(suspended.args).zip]]
    /\ UNCHANGED <<input, dirExists>>

\* the "error" event nobody listens for is an uncaught exception.  Neither
\* the module nor its command line entry point handles uncaught
\* exceptions, so unless the embedding program does (then the event loop
\* goes on: Switch) the process exits, and an invocation that has not
\* settled yet gets no further callback
ProcessExit ==
    /\ running \in {1, 2}
    /\ pc = "crashed"
    /\ suspended.pc \in {"request", "settled", "piping"}
    /\ suspended' = [suspended EXCEPT !.pc = "killed"]
    /\ UNCHANGED <<input, args, pc, dirExists, files, requests, responses,
                   fetched, fileStream, writes, parsed, outcome, running, disk>>

\* the containers served to two invocations: well-formed, version 3 and 2
TwoBodies ==
    { Assemble(In(3, Cr24, Num(3), Num(2), Num(0), 5, 0)),
      Assemble(In(2, Cr24, Num(2), Num(1), Num(2), 5, 0)) }

\* the server and stream behaviours tried with two invocations: a first
\* response 302 or 404 with a Location that is absent or an https URL, the
\* response to the followed redirect a 200 with a well-formed container,
\* one network error code, chunks of MaxChunk bytes, failures of the write
\* stream in invocation 1 only and errors of the body stream in
\* invocation 2 only
TwoScope ==
    /\ running = 1 =>
            ~(outcome.type = "throw" /\ fileStream \in {"opening", "open"})
    /\ running = 2 => fileStream \notin {"destroyed", "errored"}
    /\ Len(requests) <= 2
    /\ \A i \in 1..Len(responses) :
            /\ responses[i].statusCode \in (IF i = 1 THEN {302, 404} ELSE {200})
            /\ responses[i].headers.location
                    \in {Absent, Header("https://cdn.example/crx")}
            /\ responses[i].statusCode = 200 => responses[i].body \in TwoBodies
            /\ \/ responses[i].delivered % MaxChunk = 0
               \/ responses[i].delivered = Len(responses[i].body)
    /\ fetched # Throw("Error", "ENOTFOUND", <<>>)

NextTwo ==
    \/ Switch
    \/ ProcessExit
    \/ Next /\ TwoScope'

SpecTwo == InitTwo /\ [][NextTwo]_vars

----------------------------------------------------------------------------
(* Properties of the fetcher, checked under SpecFetch.                     *)

\* a response in the 3xx range carrying a usable Location header
Is3xxWithLocation(r) ==
    /\ r.statusCode \in 300..399
    /\ r.headers.location.present
    /\ r.headers.location.value # ""

TooManyRedirects == Throw("Error", "Too many redirects", <<>>)

\* C1: with hop budget N, as long as every response is a 3xx with a
\* Location header, never more than N + 1 requests are issued; once each
\* request has been answered that way exactly N + 1 requests were issued
\* and the fetch has failed with "Too many redirects"; before that it has
\* not failed that way.
C1_HopBudgetExhaustion ==
    (\A i \in 1..Len(responses) : Is3xxWithLocation(responses[i])) =>
        /\ Len(requests) <= args.maxRedirects + 1
        /\ (Len(requests) > 0 /\ Len(responses) = Len(requests)) =>
                /\ Len(requests) = args.maxRedirects + 1
                /\ pc = "settled"
                /\ fetched = TooManyRedirects
        /\ Len(responses) < Len(requests) => fetched # TooManyRedirects

\* C2: every redirect (3xx with Location) of a chain that arrives while a
\* hop is left is followed by a request for its Location, and when a chain
\* of k redirects (k within the budget) ends in a response that is not a
\* redirect, the fetch resolves with that response's status code, headers
\* and body stream after exactly k + 1 requests, each sent with the options
\* of the original call.
C2_RedirectChainSuccess ==
    LET n == Len(responses)
    IN
    /\ \A i \in 1..n :
            (Is3xxWithLocation(responses[i]) /\ requests[i].maxRedirects > 0) =>
                /\ Len(requests) > i
                /\ requests[i + 1].url = responses[i].headers.location.value
                /\ requests[i + 1].options = args.options
    /\  (/\ n > 0
         /\ n = Len(requests)
         /\ ~Is3xxWithLocation(responses[n])) =>
            /\ \A i \in 1..(n - 1) : Is3xxWithLocation(responses[i])
            /\ n - 1 <= args.maxRedirects
            /\ pc = "settled"
            /\ fetched = Return([statusCode |-> responses[n].statusCode,
                                 headers |-> responses[n].headers,
                                 bodyStream |-> n])
            /\ \A i \in 1..n : requests[i].options = args.options
            /\ requests[1].url = args.url
            /\ \A i \in 2..n :
                    requests[i].url = responses[i - 1].headers.location.value

\* C10: a response that is 3xx without a usable Location header, or whose
\* status is outside 300..399, resolves the fetch with that response as
\* it is (status code, headers, body stream not resumed), issues no request
\* and leaves the hop budget alone, whatever budget remains.
C10_PassThrough ==
    [][(/\ pc = "request"
        /\ Len(responses') = Len(responses) + 1
        /\ ~Is3xxWithLocation(responses'[Len(responses')])) =>
            LET r == responses'[Len(responses')]
            IN  /\ fetched' = Return([statusCode |-> r.statusCode,
                                      headers |-> r.headers,
                                      bodyStream |-> Len(responses')])
                /\ ~r.flowing
                /\ ~r.piped
                /\ requests' = requests
                /\ pc' = "settled"]_vars

\* a 302 with an empty Location arriving when no hop is left is returned
C10_Witness ==
    /\ Len(requests) = Len(responses)
    /\ Len(requests) = args.maxRedirects + 1
    /\ responses[Len(responses)].statusCode = 302
    /\ responses[Len(responses)].headers.location = Header("")
    /\ Current.maxRedirects = 0
    /\ ~responses[Len(responses)].flowing
    /\ fetched.type = "return"
    /\ fetched.value.statusCode = 302

----------------------------------------------------------------------------
(* Properties of the parser and of the conversion, checked under           *)
(* SpecParse.  The container file holds Assemble(input).                   *)

Container == files.crx.data

NotValidCrx == Throw("Error", "Not a valid CRX file (missing \"Cr24\").", <<>>)

\* the archive file as it was before the call
ArchiveUntouched == files.zip \in {NoFile, Preexisting}

\* C3: for a buffer with the "Cr24" magic and version 2 or 3 (here: one
\* that holds every header field the parser reads) the parser never returns
\* an offset beyond the buffer's length: declared lengths that reach beyond
\* the end make the parse fail with the format error and no archive file
\* is written.
C3_OffsetWithinBuffer ==
    (/\ pc = "done"
     /\ Len(Container) >= 16
     /\ SubSeq(Container, 1, 4) = Cr24
     /\ SubSeq(Container, 5, 8) \in {LE32(Num(2)), LE32(Num(3))}) =>
        /\ parsed.type = "return" => AtMost(parsed.value, Len(Container))
        /\ parsed.type = "throw" => (parsed = NotValidCrx /\ ArchiveUntouched)

\* C4: for a well-formed version 2 container assembled from pubKeyLen and
\* sigLen the parser returns 16 + pubKeyLen + sigLen.
C4_V2Offset ==
    (pc = "done" /\ WellFormed(input, 2)) =>
        parsed = Return(Num(16 + input.fieldA.lo + input.fieldB.lo))

\* a public key of 256 bytes and a signature of 2: offset 274
C4_Witness ==
    /\ pc = "done"
    /\ WellFormed(input, 2)
    /\ input.fieldA = Num(LongField)
    /\ input.fieldB = Num(2)
    /\ SubSeq(Container, 9, 16) = <<LongField % 256, LongField \div 256, 0, 0, 2, 0, 0, 0>>
    /\ parsed = Return(Num(LongField + 18))

\* C5: for a well-formed version 3 container assembled from headerSize the
\* parser returns 12 + headerSize, whatever the bytes at offsets 12..15 are.
C5_V3Offset ==
    (pc = "done" /\ WellFormed(input, 3)) =>
        parsed = Return(Num(12 + input.fieldA.lo))

\* header size 2 followed by non-zero bytes at offsets 12..15: offset 14
C5_Witness ==
    /\ pc = "done"
    /\ WellFormed(input, 3)
    /\ input.fieldA = Num(2)
    /\ Len(Container) >= 16
    /\ \A i \in 13..16 : Container[i] # 0
    /\ parsed = Return(Num(14))

\* C6: for a well-formed version 2 or 3 container the archive file written
\* by the conversion is the payload the container was assembled around,
\* which is the container from the computed offset to its end; its length
\* is the container's length minus the offset; the container file is left
\* as it was.
C6_RoundTrip ==
    (pc = "done" /\ (WellFormed(input, 2) \/ WellFormed(input, 3))) =>
        /\ outcome.type = "return"
        /\ parsed.type = "return"
        /\ parsed.value.hi = 0
        /\ files.zip = File(Payload(input))
        /\ files.zip.data = SubSeq(Container, parsed.value.lo + 1, Len(Container))
        /\ Len(files.zip.data) = Len(Container) - parsed.value.lo
        /\ files.crx = File(Assemble(input))

\* the 1000-byte version 3 container with header size 37: 951 bytes
C6_Witness ==
    /\ pc = "done"
    /\ input = EndToEnd
    /\ Len(Container) = EndToEndLength
    /\ parsed = Return(Num(12 + EndToEndHeaderSize))
    /\ Len(files.zip.data) = EndToEndLength - (12 + EndToEndHeaderSize)
    /\ files.zip.data = Payload(input)

\* C7: a buffer shorter than 4 bytes, or whose first 4 bytes are not the
\* bytes of "Cr24", fails with the format error whatever follows, and no
\* offset is returned nor archive written.
C7_BadMagic ==
    (/\ pc = "done"
     /\ (Len(Container) < 4 \/ SubSeq(Container, 1, 4) # Cr24)) =>
        /\ parsed = NotValidCrx
        /\ outcome = NotValidCrx
        /\ ArchiveUntouched

\* C8: a buffer with the magic and a version field other than 2 and 3
\* fails with the unsupported-version error carrying the version in
\* decimal; no offset is returned and no archive written.
C8_UnsupportedVersion ==
    (/\ pc = "done"
     /\ Len(Container) >= 8
     /\ input.magic = Cr24
     /\ input.version \notin {Num(2), Num(3)}) =>
        /\ parsed = Throw("Error", "Unsupported CRX version: ",
                          ToDecimal(input.version))
        /\ outcome = parsed
        /\ ArchiveUntouched

\* version 4294967295, with length fields that would otherwise parse
C8_Witness ==
    /\ pc = "done"
    /\ input.magic = Cr24
    /\ input.version = U32Max
    /\ input.layout = 2
    /\ input.cut = 0
    /\ SubSeq(Container, 5, 8) = <<255, 255, 255, 255>>
    /\ parsed = Throw("Error", "Unsupported CRX version: ",
                      <<4, 2, 9, 4, 9, 6, 7, 2, 9, 5>>)
    /\ ArchiveUntouched

----------------------------------------------------------------------------
(* Properties of the download step, checked under Spec.                    *)

\* the decimal digits of a three-digit status code
StatusDigits(n) == <<n \div 100, (n \div 10) % 10, n % 10>>

\* C9: when the fetcher has returned a final response whose status is not
\* 200, the container file is never opened nor written and both files
\* stay as they were; once the download step has run, the invocation has
\* failed with the download error carrying that status code and the
\* response body has been resumed, not piped.
C9_Non200 ==
    (fetched.type = "return" /\ fetched.value.statusCode # 200) =>
        /\ fileStream = "none"
        /\ files.crx \in {NoFile, Preexisting}
        /\ files.zip = files.crx
        /\ parsed = Pending
        /\ pc \in {"settled", "done"}
        /\ pc = "settled" => outcome = Pending
        /\ pc = "done" =>
            /\ outcome = Throw("Error", "Download failed, final status code: ",
                               StatusDigits(fetched.value.statusCode))
            /\ responses[fetched.value.bodyStream].flowing
            /\ ~responses[fetched.value.bodyStream].piped

\* a 404 reached after one redirect fails the download with "... 404"
C9_Witness ==
    /\ pc = "done"
    /\ Len(responses) = 2
    /\ fetched.type = "return"
    /\ fetched.value.statusCode = 404
    /\ outcome.type = "throw"
    /\ outcome.message = <<"Download failed, final status code: ", <<4, 0, 4>>>>
    /\ responses[2].flowing
    /\ fileStream = "none"
    /\ files.crx = Preexisting

----------------------------------------------------------------------------
(* Properties of one invocation, checked under Spec.                       *)

\* the last request issued got no response: it failed at the network level
LastRequestFailed ==
    pc \in {"settled", "done"} /\ Len(requests) > Len(responses)

\* C11: when a request of the chain (the first or a followed redirect)
\* fails at the network level, the fetch is rejected with the error the
\* request emitted, no request is issued after the failing one, and the
\* invocation is rejected with that same error.
C11_NetworkErrorEndsChain ==
    LastRequestFailed =>
        /\ Len(requests) = Len(responses) + 1
        /\ \A i \in 1..Len(responses) : Is3xxWithLocation(responses[i])
        /\ \E code \in NetworkErrors : fetched = Throw("Error", code, <<>>)
        /\ pc = "settled" => outcome = Pending
        /\ pc = "done" => outcome = fetched
        /\ fileStream = "none"

\* the third request (after two followed redirects) is reset
C11_Witness ==
    /\ pc = "done"
    /\ Len(requests) = 3
    /\ Len(responses) = 2
    /\ fetched = Throw("Error", "ECONNRESET", <<>>)
    /\ outcome = fetched

\* a uint32 field of a container, decoded least significant byte first
FieldAt(b, o) ==
    [hi |-> b[o + 4], lo |-> b[o + 1] + 256 * b[o + 2] + 65536 * b[o + 3]]

\* the header of container b does not parse: bad magic, truncated, a
\* version other than 2 and 3, or declared lengths reaching beyond the end
HeaderInvalid(b) ==
    \/ Len(b) < 8
    \/ SubSeq(b, 1, 4) # Cr24
    \/ FieldAt(b, 4) \notin {Num(2), Num(3)}
    \/ /\ FieldAt(b, 4) = Num(2)
       /\ \/ Len(b) < 16
          \/ ~AtMost(Plus(Plus(Num(16), FieldAt(b, 8)), FieldAt(b, 12)), Len(b))
    \/ /\ FieldAt(b, 4) = Num(3)
       /\ \/ Len(b) < 12
          \/ ~AtMost(Plus(Num(12), FieldAt(b, 8)), Len(b))

\* C12: when the container has been written and its header does not parse
\* (bad magic, truncated buffer, out-of-bounds lengths, unsupported
\* version), the container file keeps the downloaded bytes, no archive file
\* is created or modified and the invocation fails.
C12_ParseFailureKeepsContainer ==
    (fileStream = "finished" /\ HeaderInvalid(Body)) =>
        /\ files.crx = File(Body)
        /\ ArchiveUntouched
        /\ outcome.type = "throw"


\* the response whose body downloadCRX pipes to the container file
Consumed(i) ==
    /\ fetched.type = "return"
    /\ fetched.value.bodyStream = i
    /\ responses[i].statusCode = 200

\* C13: in every terminal state of the fetch (success, too many redirects,
\* non-200 final status) every response whose body was not handed to the
\* consumer has been drained: each followed redirect, the redirect that
\* exhausts the hop budget and the non-200 final response; the only
\* undrained body is the one piped to the container file.
C13_NoLeakedBodies ==
    (pc \in {"piping", "done", "crashed"} /\ Len(requests) = Len(responses)) =>
        \A i \in 1..Len(responses) :
            IF Consumed(i)
            THEN i = Len(responses)
            ELSE responses[i].flowing /\ ~responses[i].piped

\* a non-200 final answer reached after two followed redirects
C13_Witness ==
    /\ pc = "done"
    /\ Len(responses) = 3
    /\ fetched.type = "return"
    /\ responses[3].statusCode = 404
    /\ \A i \in 1..3 : responses[i].flowing /\ ~responses[i].piped


\* the failure condition the invocation met, told from its history
FailureCondition ==
    IF Len(requests) > Len(responses) THEN "NetworkError"
    ELSE IF Is3xxWithLocation(responses[Len(responses)])
         THEN IF Len(responses) = DefaultMaxRedirects + 1
              THEN "TooManyRedirectsError" ELSE "none"
    ELSE IF responses[Len(responses)].statusCode # 200 THEN "DownloadError"
    ELSE IF /\ Len(Container) >= 8
            /\ SubSeq(Container, 1, 4) = Cr24
            /\ FieldAt(Container, 4) \notin {Num(2), Num(3)}
         THEN "UnsupportedVersionError"
    ELSE "FormatError"

\* C14: the five failure conditions (network error, too many redirects,
\* non-200 final status, format error, unsupported version) reach the caller
\* as five distinct failure kinds, never as one generic kind.
C14_DistinctFailureKinds ==
    (/\ pc = "done"
     /\ outcome.type = "throw"
     /\ fileStream \in {"none", "finished"}
     /\ FailureCondition # "none") =>
        outcome.name = FailureCondition


\* C15: on every exit path of the network-to-disk copy (body fully written,
\* error on the response body stream, error on the file write stream) the
\* writable file stream ends up closed; no exit path leaves it open.
C15_FileStreamClosedOnExit ==
    (pc \in {"done", "crashed"} /\ fileStream # "none") =>
        fileStream \in {"finished", "destroyed", "errored"}


\* the buffer ends before a field the parser reads
Truncated(b) ==
    \/ Len(b) < 8
    \/ FieldAt(b, 4) = Num(3) /\ Len(b) < 12
    \/ FieldAt(b, 4) = Num(2) /\ Len(b) < 16

\* C17: a buffer that starts with "Cr24" but is too short to hold the
\* fields the parser reads (fewer than 8 bytes, fewer than 12 for version 3,
\* fewer than 16 for version 2) fails with the format error, the same
\* failure as bad magic, and no archive is written.
C17_TruncatedHeader ==
    (/\ pc = "done"
     /\ fileStream = "none"
     /\ Len(Container) >= 4
     /\ SubSeq(Container, 1, 4) = Cr24
     /\ Truncated(Container)) =>
        /\ parsed = NotValidCrx
        /\ outcome = NotValidCrx
        /\ ArchiveUntouched


\* the fetch stage has ended with a 200 response
Got200 ==
    /\ fetched.type = "return"
    /\ Len(requests) = Len(responses)
    /\ fetched.value.bodyStream = Len(responses)
    /\ fetched.value.statusCode = 200
    /\ responses[Len(responses)].statusCode = 200

\* C18: the stages of one invocation occur in the order network requests,
\* container write, container read, archive write: the container file is
\* written only after the fetch ended with a 200 response, it is read for
\* conversion only after the write stream has finished with the complete
\* body, the archive is written only after a successful parse, and no
\* conversion starts after a fetch failure or a body stream error.
C18_StageOrdering ==
    /\ fileStream # "none" => Got200
    /\ files.crx \notin {NoFile, Preexisting} => fileStream # "none"
    /\ parsed # Pending =>
            /\ fileStream = "finished"
            /\ files.crx = File(Body)
    /\ ~ArchiveUntouched =>
            /\ parsed.type = "return"
            /\ files.zip = File(slice(Body, parsed.value))
    /\ (pc = "done" /\ (fetched.type = "throw" \/ fileStream # "finished")) =>
            /\ parsed = Pending
            /\ ArchiveUntouched

\* the archive has been written from a container read after its write
\* stream finished
C18_Witness ==
    /\ pc = "done"
    /\ Got200
    /\ fileStream = "finished"
    /\ files.crx = File(Body)
    /\ parsed.type = "return"
    /\ files.zip.exists
    /\ files.zip.data # <<>>
    /\ outcome.type = "return"


\* C19: while the fetch stage has not ended with a 200 response (it is
\* still running, or it failed with a network error, an exhausted hop
\* budget or a non-200 final status) no step creates, truncates or modifies
\* the container file or the archive file, and no write stream is made.
C19_FailedFetchWritesNothing ==
    [][~Got200' => (files' = files /\ fileStream' = "none")]_vars

\* a failed fetch after which the files already present are as they were
C19_Witness ==
    /\ pc = "done"
    /\ fetched.type = "return"
    /\ fetched.value.statusCode = 404
    /\ outcome.type = "throw"
    /\ files = [crx |-> Preexisting, zip |-> Preexisting]
    /\ fileStream = "none"


\* C20: every invocation settles exactly once: when no further step of the
\* invocation can occur its promise is resolved with the two paths or
\* rejected with an error; in particular an error on the file write stream
\* during the copy leads to a rejection.
C20_EveryInvocationSettles ==
    (pc \in {"done", "crashed"} \/ fileStream = "errored") =>
        outcome.type \in {"return", "throw"}


----------------------------------------------------------------------------
(* Properties of two concurrent invocations, checked under SpecTwo.        *)

\* what belongs to invocation i alone
LocalOf(i) == IF i = running THEN Local ELSE suspended

\* the two files of invocation i
FilesOf(i) ==
    [crx |-> Namespace[DestinationPaths(Invocations[i]).crx],
     zip |-> Namespace[DestinationPaths(Invocations[i]).zip]]

\* the body invocation s pipes to its container file
BodyOf(s) == s.responses[s.fetched.value.bodyStream].body

\* hop budgets and request options of invocation s are those of its own
\* call, and its two files f hold what its own download has written
OwnRequestsAndFiles(s, f) ==
    /\ \A k \in 1..Len(s.requests) :
            /\ s.requests[k].maxRedirects = DefaultMaxRedirects - (k - 1)
            /\ s.requests[k].options = CrxOptions(s.args.chromeVersion)
    /\ Len(s.requests) > 0 =>
            s.requests[1].url = CrxUrl(s.args.extensionId, s.args.chromeVersion)
    /\ s.fileStream \in {"none", "opening"} => f.crx = NoFile
    /\ s.fileStream \notin {"none", "opening"} =>
            \/ s.fileStream = "errored" /\ f.crx = NoFile
            \/ /\ f.crx.exists
               /\ Len(f.crx.data) <= Len(BodyOf(s))
               /\ f.crx.data = SubSeq(BodyOf(s), 1, Len(f.crx.data))
    /\ s.fileStream = "finished" => f.crx = File(BodyOf(s))
    /\ s.parsed.type = "return" =>
            f.zip = File(slice(BodyOf(s), s.parsed.value))
    /\ s.parsed.type # "return" => f.zip = NoFile

\* the positions an invocation can be in when it runs alone
PositionsAlone == {"start", "request", "settled", "piping", "done", "crashed"}

\* C16: two invocations running concurrently in one process with distinct
\* destination file names do not affect each other: under every
\* interleaving of their callbacks each one's hop budgets, request options,
\* container file and archive file are those of its own call and download,
\* and each one is at a position it can be in when it runs alone (it is not
\* stopped by the other).
C16_Independence ==
    \A i \in {1, 2} :
        /\ OwnRequestsAndFiles(LocalOf(i), FilesOf(i))
        /\ LocalOf(i).pc \in PositionsAlone

====
